---- MODULE Spec2Model ----
(***************************************************************************)
(* wolkenbrot: one bake of a machine image, for the AWS, OpenStack and     *)
(* libvirt builders.  The state machine follows bake() of aws.py, os.py    *)
(* and libvirt.py: check_config, validate_image_name, Builder.__init__,    *)
(* __enter__ (make_new_key, make_new_group), launch, wait_for_ssh,         *)
(* copy_files, configure, create_image and __exit__.  One step is one call *)
(* to the backend, the remote session or the local file system; every such *)
(* call either returns or raises.  Time advances only inside those calls.  *)
(***************************************************************************)
EXTENDS Integers, Sequences, FiniteSets, TLC

(* ------------------------------ bounds -------------------------------- *)
MaxCmds == 2
MaxUploads == 1
MaxMissing == 1
MaxTags == 2

(* ------------------------- program constants -------------------------- *)
SshAttempts == 15
SshDelay == 4
LibvirtSshTimeout == 300
LibvirtSshDelay == 5
WaitRunningTries == 120
WaitShutdownTries == 120
VolumeTries == 360
SgRules == 3
RunningCode == 16
TerminatedCode == 48

Required ==
  {"name", "description", "region", "user", "instance_type", "base_image",
   "uploads", "commands"}

Providers == {"absent", "aws", "openstack", "libvirt"}
Builders == {"aws", "openstack", "libvirt"}
ExitCodes == {0, 1, 2}

(* The spec's name and description, and the keys of its tags: a tag is a   *)
(* mapping, written as the sequence of its (key, value) items.             *)
SpecName == "short"
SpecDescription == "Short example"
TagKeys == <<"owner", "project", "team">>
TagLists == {[k \in 1..n |-> << <<TagKeys[k], "x">> >>] : n \in 0..MaxTags}

(* Seconds one connection attempt may take before it fails. *)
ConnectDurations == {0, 30}

(* What one SSHClient(...) construction ends in. *)
ConnectOutcomes ==
  {"ok", "NoValidConnectionsError", "TimeoutError", "AuthenticationException",
   "PasswordRequiredException", "OSError", "SSHException"}

VARIABLES
  entry,    \* the module whose bake() runs
  cfg,      \* the build spec: missing keys, provider, commands, uploads, ...
  pc,       \* the call the program is at
  pending,  \* the exception in flight while __exit__ runs ("none": none)
  err,      \* what reached the caller of bake ("none": normal return)
  alarm,    \* a SIGALRM of the timeout decorator is armed
  b,        \* the Builder object's fields
  be,       \* the backend and the local file system
  loc,      \* locals of the running function
  h         \* observations: calls made so far

vars == <<entry, cfg, pc, pending, err, alarm, b, be, loc, h>>

Range(s) == {s[i] : i \in DOMAIN s}
Iota(n) == [i \in 1..n |-> i]

(* ------------------------------ check_config -------------------------- *)
(* util.check_config: config['provider'] is read first.                   *)
check_config(c) ==
  IF c.provider = "absent" THEN "KeyError"
  ELSE LET rq == IF c.provider = "openstack" THEN Required \ {"region"}
                 ELSE Required
           diff == rq \ (Required \ c.missing)
       IN IF diff # {} THEN "BadConfigFile" ELSE "ok"

(* cli.main: openstack when --openstack is given or the config says so,    *)
(* aws otherwise; libvirt.bake is an entry of its own.                     *)
Dispatch(flag, provider) ==
  IF flag \/ provider = "openstack" THEN "openstack" ELSE "aws"

Builder == entry

(* ------------------------------ initial state ------------------------- *)
NoBuilder ==
  [key |-> FALSE, sec_grp |-> FALSE, instance |-> FALSE, status |-> "none",
   volumes |-> FALSE, work_dir |-> FALSE, ssh_client |-> 0, image |-> FALSE]

EmptyBackend ==
  [keypair |-> FALSE, pem |-> FALSE, secgroup |-> FALSE, rules |-> 0,
   inst |-> "none", volume |-> FALSE, fip |-> FALSE, workdir |-> FALSE,
   image |-> "none", imageName |-> "none", imageTags |-> {},
   oldImage |-> FALSE, otherKey |-> FALSE,
   otherGroup |-> FALSE, sessions |-> 0]

NoLocals == [i |-> 0, elapsed |-> 0, ip |-> FALSE, ret |-> "none",
             attempts |-> 0, delays |-> <<>>, transients |-> 0,
             rejected |-> FALSE, has |-> {}, ip_addr |-> "none"]

NoHistory ==
  [phases |-> <<>>, copied |-> <<>>, executed |-> <<>>, retvals |-> <<>>,
   reported |-> <<>>, listed |-> {},
   td |-> <<>>, tdRaised |-> {}, caught |-> {}, created |-> {},
   failedIn |-> "none", failedAt |-> "none"]

Configs ==
  { c \in [missing : SUBSET Required, provider : Providers,
           commands : {Iota(n) : n \in 0..MaxCmds},
           uploads : {Iota(n) : n \in 0..MaxUploads},
           tags : TagLists,
           floating : BOOLEAN] :
      /\ Cardinality(c.missing) <= MaxMissing
      /\ (c.missing # {} => c.commands = <<>> /\ c.uploads = <<>> /\ ~c.floating)
      /\ (c.tags # <<>> => c.missing = {} /\ c.commands = <<>> /\ c.uploads = <<>>)
      /\ (c.floating => c.commands = <<>> /\ c.uploads = <<>>)
      /\ Len(c.uploads) + Len(c.commands) <= MaxCmds }

Init ==
  /\ entry \in Builders
  /\ cfg \in Configs
  /\ \/ entry = "libvirt" /\ cfg.provider \in {"absent", "libvirt"}
     \/ /\ cfg.provider # "libvirt"
        /\ \E flag \in BOOLEAN : entry = Dispatch(flag, cfg.provider)
  /\ (cfg.floating => entry = "openstack")
  /\ pc = "check_config"
  /\ pending = "none"
  /\ err = "none"
  /\ alarm = FALSE
  /\ b = NoBuilder
  /\ \E old \in BOOLEAN, other \in {"none", "key", "group"} :
       /\ (other # "none" => entry = "openstack" /\ cfg.missing = {})
       /\ be = [EmptyBackend EXCEPT !.oldImage = old,
                                    !.otherKey = (other = "key"),
                                    !.otherGroup = (other = "group")]
  /\ loc = NoLocals
  /\ h = NoHistory

(* ------------------------------ control ------------------------------- *)
(* The phases of bake's with-body, in call order. *)
PhaseOrder == <<"launch", "wait_for_ssh", "copy_files", "configure", "create_image">>

(* @timeout(...) decorates these methods. *)
Decorated(bld, phase) ==
  \/ phase \in {"copy_files", "configure"}
  \/ bld \in {"aws", "openstack"} /\ phase \in {"launch", "wait_for_ssh", "create_image"}

(* A wait_for_ssh that starts with the connection loop. *)
aws_wait_for_ssh_connects == "ssh_connect"

(* aws.py wait_for_ssh: self.wait_for_status(16) is its first statement. *)
aws_wait_for_ssh_first == "wait_status_running"

FirstPc(bld, phase) ==
  CASE phase = "launch" ->
         (CASE bld = "aws" -> "create_instances"
            [] bld = "openstack" -> "create_server"
            [] OTHER -> "prepare_disk")
    [] phase = "wait_for_ssh" ->
         (CASE bld = "aws" -> aws_wait_for_ssh_first
            [] bld = "openstack" -> "resolve_address"
            [] OTHER -> "libvirt_ssh")
    [] phase = "copy_files" -> "copy_files"
    [] phase = "configure" -> "configure"
    [] phase = "create_image" ->
         (CASE bld = "aws" -> "create_image"
            [] bld = "openstack" -> "shutdown_machine"
            [] OTHER -> "sysprep")
    [] phase = "exit" ->
         (CASE bld = "aws" -> "td_key_delete"
            [] b.instance -> "shutdown_machine"
            [] bld = "openstack" -> "td_sg"
            [] OTHER -> "td_rmtree")
    [] OTHER -> "done"

NextAfter(last) ==
  CASE last = "acquire" -> "launch"
    [] last = "launch" -> "wait_for_ssh"
    [] last = "wait_for_ssh" -> "copy_files"
    [] last = "copy_files" -> "configure"
    [] last = "configure" -> "create_image"
    [] OTHER -> "exit"

LastPhase == IF h.phases = <<>> THEN "none" ELSE h.phases[Len(h.phases)]

(* A decorator that sets no alarm. *)
timeout_arm_never(bld, phase) == FALSE

(* util.timeout's wrapper: signal.alarm(seconds) before the call,          *)
(* signal.alarm(0) in the finally clause.                                  *)
timeout_arm(bld, phase) == Decorated(bld, phase)

(* A wrapper without the finally clause: the alarm stays as it is. *)
timeout_finally_absent == alarm

timeout_finally == FALSE

(* A method is called: its frame is fresh and, if decorated, its alarm set. *)
Enter(phase) ==
  /\ pc' = FirstPc(Builder, phase)
  /\ alarm' = (alarm \/ (phase # "exit" /\ timeout_arm(Builder, phase)))
  /\ loc' = NoLocals
  /\ h' = [h EXCEPT !.phases = Append(@, phase)]

(* A method of the with-body returns to bake. *)
Return(ll, hh) ==
  /\ pc' = "bake"
  /\ alarm' = timeout_finally
  /\ pending' = "none"
  /\ loc' = ll
  /\ h' = hh

(* An exception leaves a method of the with-body. *)
Raise(e, ll, hh) ==
  /\ pc' = "bake"
  /\ alarm' = timeout_finally
  /\ pending' = e
  /\ loc' = ll
  /\ h' = [hh EXCEPT !.failedIn = LastPhase]

(* An exception leaves bake before the with-body is entered: __exit__ is   *)
(* not called when __init__ or __enter__ raises.                           *)
Abort(e) ==
  /\ pc' = "done"
  /\ err' = e
  /\ h' = [h EXCEPT !.failedIn = IF LastPhase = "none" THEN "preflight" ELSE LastPhase,
                    !.failedAt = pc]

Created(hh, kind) == [hh EXCEPT !.created = @ \cup {kind}]

(* --------------------------- bake: pre-flight -------------------------- *)
CheckConfig ==
  /\ pc = "check_config"
  /\ LET r == check_config(cfg)
     IN IF r = "ok"
        THEN pc' = "validate_image_name" /\ UNCHANGED <<err, h>>
        ELSE Abort(r)
  /\ UNCHANGED <<entry, cfg, pending, alarm, b, be, loc>>

(* A check that finds no image whatever the backend holds. *)
validate_image_name_never(bk) == FALSE

(* validate_image_name: describe_images filtered by name / find_image;     *)
(* libvirt: os.path.exists(output_path).                                   *)
validate_image_name(bk) == bk.oldImage

(* validate_image_name, then sys.exit(2) when the name is taken.  For      *)
(* libvirt the test is os.path.exists(output_path).                        *)
ValidateImageName ==
  /\ pc = "validate_image_name"
  /\ \/ /\ validate_image_name(be)
        /\ Abort("SystemExit2")
     \/ /\ ~validate_image_name(be)
        /\ pc' = IF Builder = "libvirt" THEN "get_client" ELSE "init"
        /\ UNCHANGED <<err, h>>
     \/ /\ Builder # "libvirt"
        /\ Abort("BackendError")
  /\ UNCHANGED <<entry, cfg, pending, alarm, b, be, loc>>

LibvirtGetClient ==
  /\ pc = "get_client"
  /\ \/ pc' = "init" /\ UNCHANGED <<err, h>>
     \/ Abort("RuntimeError")
  /\ UNCHANGED <<entry, cfg, pending, alarm, b, be, loc>>

AcquireFirstPc(bld) ==
  CASE bld = "aws" -> "create_key_pair"
    [] bld = "openstack" -> "get_keypair"
    [] OTHER -> "mkdtemp"

(* Builder.__init__ (base image lookup, instance type) and the call of     *)
(* __enter__.                                                              *)
BuilderInit ==
  /\ pc = "init"
  /\ \/ /\ pc' = AcquireFirstPc(Builder)
        /\ h' = [h EXCEPT !.phases = Append(@, "acquire")]
        /\ b' = [b EXCEPT !.sec_grp = (Builder = "libvirt")]
        /\ UNCHANGED err
     \/ Abort("ValueError") /\ UNCHANGED b
  /\ UNCHANGED <<entry, cfg, pending, alarm, be, loc>>

(* The with statement: after __enter__ or a method returned, the next      *)
(* method is called; after the last one, or when one raised, __exit__.     *)
Bake ==
  /\ pc = "bake"
  /\ Enter(IF pending # "none" THEN "exit" ELSE NextAfter(LastPhase))
  /\ UNCHANGED <<entry, cfg, pending, err, b, be>>

(* ------------------------------ __enter__ ------------------------------ *)
AwsCreateKeyPair ==
  /\ pc = "create_key_pair"
  /\ \/ /\ be' = [be EXCEPT !.keypair = TRUE]
        /\ pc' = "write_pem"
        /\ h' = Created(h, "keypair")
        /\ UNCHANGED err
     \/ Abort("BackendError") /\ UNCHANGED be
  /\ UNCHANGED <<entry, cfg, pending, alarm, b, loc>>

AwsWritePem ==
  /\ pc = "write_pem"
  /\ \/ /\ be' = [be EXCEPT !.pem = TRUE]
        /\ b' = [b EXCEPT !.key = TRUE]
        /\ pc' = "create_security_group"
        /\ h' = Created(h, "pem")
        /\ UNCHANGED err
     \/ Abort("OSError") /\ UNCHANGED <<b, be>>
  /\ UNCHANGED <<entry, cfg, pending, alarm, loc>>

AwsCreateSecurityGroup ==
  /\ pc = "create_security_group" /\ Builder = "aws"
  /\ \/ /\ be' = [be EXCEPT !.secgroup = TRUE]
        /\ pc' = "authorize_ingress"
        /\ h' = Created(h, "secgroup")
        /\ UNCHANGED err
     \/ Abort("BackendError") /\ UNCHANGED be
  /\ UNCHANGED <<entry, cfg, pending, alarm, b, loc>>

AwsAuthorizeIngress ==
  /\ pc = "authorize_ingress"
  /\ \/ /\ be' = [be EXCEPT !.rules = 1]
        /\ b' = [b EXCEPT !.sec_grp = TRUE]
        /\ pc' = "bake"
        /\ UNCHANGED <<err, h>>
     \/ Abort("BackendError") /\ UNCHANGED <<b, be>>
  /\ UNCHANGED <<entry, cfg, pending, alarm, loc>>

(* os.py make_new_key: a keypair of that name is deleted first. *)
OsGetKeypair ==
  /\ pc = "get_keypair"
  /\ \/ /\ ~be.otherKey
        /\ pc' = "create_keypair"
        /\ UNCHANGED <<be, err, h>>
     \/ /\ be.otherKey
        /\ be' = [be EXCEPT !.otherKey = FALSE]
        /\ pc' = "create_keypair"
        /\ UNCHANGED <<err, h>>
     \/ Abort("BackendError") /\ UNCHANGED be
  /\ UNCHANGED <<entry, cfg, pending, alarm, b, loc>>

OsCreateKeypair ==
  /\ pc = "create_keypair"
  /\ \/ /\ be' = [be EXCEPT !.keypair = TRUE]
        /\ b' = [b EXCEPT !.key = TRUE]
        /\ pc' = "get_security_group"
        /\ h' = Created(h, "keypair")
        /\ UNCHANGED err
     \/ Abort("BackendError") /\ UNCHANGED <<b, be>>
  /\ UNCHANGED <<entry, cfg, pending, alarm, loc>>

(* os.py make_new_group: the group is named after today's date, and a      *)
(* group of that name is deleted first.                                    *)
OsGetSecurityGroup ==
  /\ pc = "get_security_group"
  /\ \/ /\ ~be.otherGroup
        /\ pc' = "create_security_group"
        /\ UNCHANGED <<be, err, h>>
     \/ /\ be.otherGroup
        /\ be' = [be EXCEPT !.otherGroup = FALSE]
        /\ pc' = "create_security_group"
        /\ UNCHANGED <<err, h>>
     \/ Abort("BackendError") /\ UNCHANGED be
  /\ UNCHANGED <<entry, cfg, pending, alarm, b, loc>>

OsCreateSecurityGroup ==
  /\ pc = "create_security_group" /\ Builder = "openstack"
  /\ \/ /\ be' = [be EXCEPT !.secgroup = TRUE]
        /\ pc' = "create_rule"
        /\ h' = Created(h, "secgroup")
        /\ UNCHANGED err
     \/ Abort("BackendError") /\ UNCHANGED be
  /\ UNCHANGED <<entry, cfg, pending, alarm, b, loc>>

(* The three create_security_group_rule calls; __enter__ returns after the *)
(* last.                                                                   *)
OsCreateRule ==
  /\ pc = "create_rule"
  /\ \/ /\ be' = [be EXCEPT !.rules = @ + 1]
        /\ IF be.rules + 1 = SgRules
           THEN pc' = "bake" /\ b' = [b EXCEPT !.sec_grp = TRUE]
           ELSE pc' = "create_rule" /\ UNCHANGED b
        /\ UNCHANGED <<err, h>>
     \/ Abort("BackendError") /\ UNCHANGED <<b, be>>
  /\ UNCHANGED <<entry, cfg, pending, alarm, loc>>

(* A second bake of the same day against the same project, in os.py       *)
(* make_new_group: it asks for the group of today's name, deletes the one  *)
(* it finds and creates its own under that name. Taken between acquire    *)
(* and launch of a bake of the smallest spec.                              *)
OtherMakesNewGroup ==
  /\ Builder = "openstack"
  /\ pc = "bake" /\ pending = "none" /\ LastPhase = "acquire"
  /\ cfg.commands = <<>> /\ cfg.uploads = <<>> /\ cfg.tags = <<>> /\ ~cfg.floating
  /\ ~be.otherGroup
  /\ be' = [be EXCEPT !.secgroup = FALSE, !.rules = 0, !.otherGroup = TRUE]
  /\ UNCHANGED <<entry, cfg, pc, pending, err, alarm, b, loc, h>>

(* libvirt.py make_new_key: the work directory, then the key in memory;    *)
(* make_new_group returns dummies.                                         *)
LibvirtMkdtemp ==
  /\ pc = "mkdtemp"
  /\ \/ /\ be' = [be EXCEPT !.workdir = TRUE]
        /\ b' = [b EXCEPT !.work_dir = TRUE]
        /\ pc' = "generate_key"
        /\ h' = Created(h, "workdir")
        /\ UNCHANGED err
     \/ Abort("OSError") /\ UNCHANGED <<b, be>>
  /\ UNCHANGED <<entry, cfg, pending, alarm, loc>>

LibvirtGenerateKey ==
  /\ pc = "generate_key"
  /\ \/ /\ b' = [b EXCEPT !.key = TRUE, !.sec_grp = TRUE]
        /\ pc' = "bake"
        /\ UNCHANGED <<err, h>>
     \/ Abort("OSError") /\ UNCHANGED b
  /\ UNCHANGED <<entry, cfg, pending, alarm, be, loc>>

(* ------------------------------ the backend ---------------------------- *)
(* The statuses the backend may report next for an instance it reports as  *)
(* s now: boot, stop and termination make progress or not.                 *)
Progress(s) ==
  CASE s = "pending" -> {"pending", "running"}
    [] s = "shutting-down" -> {"shutting-down", "terminated"}
    [] s = "stopping" -> {"stopping", "stopped"}
    [] OTHER -> {s}

(* EC2 state codes (aws.py wait_for_status docstring). *)
AwsCode(s) ==
  CASE s = "pending" -> 0
    [] s = "running" -> 16
    [] s = "shutting-down" -> 32
    [] s = "terminated" -> 48
    [] s = "stopping" -> 64
    [] s = "stopped" -> 80
    [] OTHER -> -1

(* A loop that keeps the state it has. *)
reload_cached(cached, fetched) == cached

(* self.instance.reload() / self.instance = get_server(id): the state the  *)
(* builder holds is the one the backend answers.                           *)
reload(cached, fetched) == fetched

(* A wait that takes any state for the awaited one. *)
wait_for_status_any(code, status) == TRUE

(* wait_for_status: the loop is left when code == status. *)
wait_for_status_reached(code, status) == code = status

(* An instance that exists for the backend (a terminated EC2 instance is   *)
(* only a record).                                                         *)
InstanceExists == be.inst \notin {"none", "terminated"}

(* ------------------------------ the alarm ------------------------------ *)
(* SIGALRM arrives while a call blocks: _handle_timeout raises             *)
(* util.TimeoutError in the running method.  Blocking: the method has a    *)
(* call to make that takes time.                                           *)
Blocking ==
  CASE pc = "copy_files" -> loc.i < Len(cfg.uploads)
    [] pc = "configure" -> loc.i < Len(cfg.commands)
    [] pc = "ssh_connect" -> loc.i < SshAttempts
    [] pc = "volume_wait" -> b.volumes /\ loc.i < VolumeTries
    [] OTHER -> pc \notin {"bake", "done"}

AlarmFires ==
  /\ alarm
  /\ Blocking
  /\ IF LastPhase = "exit"
     THEN /\ pc' = "done"
          /\ err' = "util.TimeoutError"
          /\ alarm' = FALSE
          /\ UNCHANGED <<pending, loc, h>>
     ELSE /\ Raise("util.TimeoutError", loc, h)
          /\ UNCHANGED err
  /\ UNCHANGED <<entry, cfg, b, be>>

(* ------------------------------ launch --------------------------------- *)
(* aws.py launch: create_instances; when the call raises, the instance may *)
(* exist all the same, with no reference to it in self.instance.           *)
AwsCreateInstances ==
  /\ pc = "create_instances"
  /\ \/ /\ be' = [be EXCEPT !.inst = "pending"]
        /\ b' = [b EXCEPT !.instance = TRUE, !.status = "pending"]
        /\ pc' = "wait_until_running"
        /\ h' = Created(h, "instance")
        /\ UNCHANGED <<pending, alarm, loc>>
     \/ /\ Raise("BackendError", loc, h)
        /\ UNCHANGED <<b, be>>
     \/ /\ be' = [be EXCEPT !.inst = "pending"]
        /\ Raise("BackendError", loc, Created(h, "instance"))
        /\ UNCHANGED b
  /\ UNCHANGED <<entry, cfg, err>>

(* instance.wait_until_running(): boto3's waiter polls the backend; the    *)
(* resource's cached state is not reloaded.                                *)
AwsWaitUntilRunning ==
  /\ pc = "wait_until_running"
  /\ \/ /\ be.inst \in {"pending", "running"}
        /\ be' = [be EXCEPT !.inst = "running"]
        /\ Return(loc, h)
     \/ /\ Raise("WaiterError", loc, h)
        /\ UNCHANGED be
  /\ UNCHANGED <<entry, cfg, err, b>>

(* os.py launch *)
OsCreateServer ==
  /\ pc = "create_server"
  /\ \/ /\ be' = [be EXCEPT !.inst = "pending", !.volume = TRUE]
        /\ b' = [b EXCEPT !.instance = TRUE, !.status = "pending"]
        /\ pc' = "wait_active"
        /\ h' = Created(Created(h, "instance"), "volume")
        /\ UNCHANGED <<pending, alarm, loc>>
     \/ /\ Raise("BackendError", loc, h)
        /\ UNCHANGED <<b, be>>
     \/ /\ be' = [be EXCEPT !.inst = "pending", !.volume = TRUE]
        /\ Raise("BackendError", loc, Created(Created(h, "instance"), "volume"))
        /\ UNCHANGED b
  /\ UNCHANGED <<entry, cfg, err>>

(* os.py wait_for_status("ACTIVE"), then the floating IP if configured. *)
OsWaitActive ==
  /\ pc = "wait_active"
  /\ \/ /\ b.status # "running"
        /\ \E s \in Progress(be.inst) :
             /\ be' = [be EXCEPT !.inst = s]
             /\ b' = [b EXCEPT !.status = reload(@, s), !.volumes = be.volume]
        /\ UNCHANGED <<pc, pending, alarm, loc, h>>
     \/ /\ b.status # "running"
        /\ Raise("BackendError", loc, h)
        /\ UNCHANGED <<b, be>>
     \/ /\ b.status = "running"
        /\ IF cfg.floating
           THEN pc' = "create_floating_ip" /\ UNCHANGED <<pending, alarm, loc, h>>
           ELSE Return(loc, h)
        /\ UNCHANGED <<b, be>>
  /\ UNCHANGED <<entry, cfg, err>>

OsCreateFloatingIp ==
  /\ pc = "create_floating_ip"
  /\ \/ /\ be' = [be EXCEPT !.fip = TRUE]
        /\ pc' = "add_floating_ip"
        /\ h' = Created(h, "fip")
        /\ UNCHANGED <<pending, alarm, loc>>
     \/ /\ Raise("BackendError", loc, h)
        /\ UNCHANGED be
  /\ UNCHANGED <<entry, cfg, err, b>>

(* What a server that was ACTIVE may be by the next get_server. *)
Refetched(s) == {s, "error"}

(* add_floating_ip_to_server, then self.instance = get_server(id): the     *)
(* record fetched here is kept as it comes, its status is not looked at.   *)
OsAddFloatingIp ==
  /\ pc = "add_floating_ip"
  /\ \/ \E s \in Refetched(be.inst) :
          /\ be' = [be EXCEPT !.inst = s]
          /\ b' = [b EXCEPT !.status = s, !.volumes = be.volume]
          /\ Return(loc, h)
     \/ /\ Raise("BackendError", loc, h)
        /\ UNCHANGED <<b, be>>
  /\ UNCHANGED <<entry, cfg, err>>

(* libvirt.py launch: _prepare_disk and _create_cloud_init_iso write into  *)
(* the work directory.                                                     *)
LibvirtPrepareDisk ==
  /\ pc = "prepare_disk"
  /\ \/ pc' = "cloud_init_iso" /\ UNCHANGED <<pending, alarm, loc, h>>
     \/ Raise("CalledProcessError", loc, h)
  /\ UNCHANGED <<entry, cfg, err, b, be>>

LibvirtCloudInitIso ==
  /\ pc = "cloud_init_iso"
  /\ \/ pc' = "defineXML" /\ UNCHANGED <<pending, alarm, loc, h>>
     \/ Raise("OSError", loc, h)
  /\ UNCHANGED <<entry, cfg, err, b, be>>

LibvirtDefineXML ==
  /\ pc = "defineXML"
  /\ \/ /\ be' = [be EXCEPT !.inst = "stopped"]
        /\ b' = [b EXCEPT !.instance = TRUE]
        /\ pc' = "domain_create"
        /\ h' = Created(h, "instance")
        /\ UNCHANGED <<pending, alarm, loc>>
     \/ /\ Raise("libvirtError", loc, h)
        /\ UNCHANGED <<b, be>>
  /\ UNCHANGED <<entry, cfg, err>>

LibvirtDomainCreate ==
  /\ pc = "domain_create"
  /\ \/ /\ be' = [be EXCEPT !.inst = "pending"]
        /\ pc' = "wait_for_running"
        /\ UNCHANGED <<pending, alarm, loc, h>>
     \/ /\ Raise("libvirtError", loc, h)
        /\ UNCHANGED be
  /\ UNCHANGED <<entry, cfg, err, b>>

(* _wait_for_running: for _ in range(120): state(); sleep(1) *)
LibvirtWaitForRunning ==
  /\ pc = "wait_for_running"
  /\ \/ /\ loc.i < WaitRunningTries
        /\ \E s \in Progress(be.inst) :
             /\ be' = [be EXCEPT !.inst = s]
             /\ IF s = "running"
                THEN Return(loc, h)
                ELSE /\ loc' = [loc EXCEPT !.i = @ + 1]
                     /\ UNCHANGED <<pc, pending, alarm, h>>
     \/ /\ loc.i < WaitRunningTries
        /\ Raise("libvirtError", loc, h)
        /\ UNCHANGED be
     \/ /\ loc.i = WaitRunningTries
        /\ Raise("RuntimeError", loc, h)
        /\ UNCHANGED be
  /\ UNCHANGED <<entry, cfg, err, b>>

(* ------------------------------ wait_for_ssh --------------------------- *)
(* paramiko's and Python's exception classes: e is an instance of cls. *)
IsA(e, cls) ==
  \/ e = cls
  \/ e = "PasswordRequiredException" /\ cls \in {"AuthenticationException", "SSHException"}
  \/ e = "AuthenticationException" /\ cls = "SSHException"
  \/ e \in {"NoValidConnectionsError", "TimeoutError"} /\ cls = "OSError"

(* The except clauses around SSHClient(...), in order. *)
ssh_handlers(bld) ==
  IF bld = "libvirt"
  THEN << [classes |-> {"NoValidConnectionsError", "TimeoutError",
                        "AuthenticationException", "OSError"},
           do |-> "retry"] >>
  ELSE << [classes |-> {"PasswordRequiredException"}, do |-> "raise"],
          [classes |-> {"NoValidConnectionsError", "TimeoutError",
                        "AuthenticationException"},
           do |-> "retry"] >>

(* What the try statement does with exception e: the first clause that     *)
(* matches decides; with none, e propagates.                               *)
ssh_except(bld, e) ==
  LET hs == ssh_handlers(bld)
      hit == {k \in DOMAIN hs : \E cls \in hs[k].classes : IsA(e, cls)}
  IN IF hit = {} THEN "raise"
     ELSE hs[CHOOSE k \in hit : \A j \in hit : k <= j].do

(* A builder that sleeps libvirt's delay whatever the backend. *)
ssh_delay_same(bld) == LibvirtSshDelay

(* The delay slept after a failed attempt. *)
ssh_delay(bld) == IF bld = "libvirt" THEN LibvirtSshDelay ELSE SshDelay

(* A wait_for_ssh that drops the session it opened. *)
ssh_assign_none(session) == 0

(* self.ssh_client = SSHClient(...) *)
ssh_assign(session) == session

(* A wait_for_ssh that goes round again after a session was opened. *)
ssh_connected_goes_on(bld) == "continue"

(* The statement after self.ssh_client = SSHClient(...) in the try block:  *)
(* return.                                                                 *)
ssh_connected(bld) == "return"

(* The addresses an instance can have when wait_for_ssh looks: a running  *)
(* EC2 instance and an OpenStack server on the spec's network have a       *)
(* private address and may have a public one; a libvirt domain is known to *)
(* the guest agent, to the DHCP leases, to both or to neither.  All the    *)
(* cases are taken for the smallest spec; for the others an instance has   *)
(* every address or (libvirt) none yet.                                    *)
Addresses(bld, c) ==
  LET all == IF bld = "libvirt" THEN SUBSET {"agent", "lease"}
             ELSE {{"private"}, {"public", "private"}}
  IN IF c.commands = <<>> /\ c.uploads = <<>> /\ c.tags = <<>> /\ ~c.floating
     THEN all
     ELSE {has \in all : has = {} \/ Cardinality(has) = 2}

(* A wait_for_ssh that prefers the private address and the lease. *)
ip_addr_lowest(bld, has) ==
  IF bld = "libvirt"
  THEN IF "lease" \in has THEN "lease"
       ELSE IF "agent" \in has THEN "agent" ELSE "none"
  ELSE IF "private" \in has THEN "private"
       ELSE IF "public" \in has THEN "public" ELSE "none"

(* aws.py: public_ip_address or private_ip_address; os.py: public_v4,     *)
(* else the first address on the spec's network; libvirt.py                *)
(* _get_ip_address: the guest agent's answer, else the lease, else None.   *)
ip_addr(bld, has) ==
  IF bld = "libvirt"
  THEN IF "agent" \in has THEN "agent"
       ELSE IF "lease" \in has THEN "lease" ELSE "none"
  ELSE IF "public" \in has THEN "public"
       ELSE IF "private" \in has THEN "private" ELSE "none"

(* aws.py wait_for_ssh starts with wait_for_status(16): the cached state   *)
(* code is compared, and reloaded after a sleep while it differs.          *)
AwsWaitStatusRunning ==
  /\ pc = "wait_status_running"
  /\ \/ /\ ~wait_for_status_reached(AwsCode(b.status), RunningCode)
        /\ \E s \in Progress(be.inst) :
             /\ be' = [be EXCEPT !.inst = s]
             /\ b' = [b EXCEPT !.status = reload(@, s)]
        /\ UNCHANGED <<pc, pending, alarm, loc, h>>
     \/ /\ ~wait_for_status_reached(AwsCode(b.status), RunningCode)
        /\ Raise("BackendError", loc, h)
        /\ UNCHANGED <<b, be>>
     \/ /\ wait_for_status_reached(AwsCode(b.status), RunningCode)
        /\ pc' = "ssh_connect"
        /\ \E has \in Addresses(Builder, cfg) :
             loc' = [loc EXCEPT !.has = has, !.ip_addr = ip_addr(Builder, has)]
        /\ UNCHANGED <<pending, alarm, h, b, be>>
  /\ UNCHANGED <<entry, cfg, err>>

(* os.py wait_for_ssh: public_v4, else addresses[network][0]['addr'] *)
OsResolveAddress ==
  /\ pc = "resolve_address"
  /\ \/ /\ pc' = "ssh_connect"
        /\ \E has \in Addresses(Builder, cfg) :
             loc' = [loc EXCEPT !.has = has, !.ip_addr = ip_addr(Builder, has)]
        /\ UNCHANGED <<pending, alarm, h>>
     \/ Raise("KeyError", loc, h)
  /\ UNCHANGED <<entry, cfg, err, b, be>>

(* A wait_for_ssh that goes round once more than range(0, 15). *)
ssh_in_range_16(i) == i <= SshAttempts

(* for i in range(0, 15) *)
ssh_in_range(i) == i < SshAttempts

(* The loop body of wait_for_ssh (aws.py, os.py): one SSHClient(...) per   *)
(* iteration; the raise after the loop.                                    *)
SshConnect ==
  /\ pc = "ssh_connect"
  /\ \/ /\ ssh_in_range(loc.i)
        /\ \E o \in ConnectOutcomes :
             LET ll == [loc EXCEPT !.attempts = @ + 1,
                                   !.rejected = (o = "PasswordRequiredException")]
             IN IF o = "ok"
                THEN /\ be' = [be EXCEPT !.sessions = @ + 1]
                     /\ b' = [b EXCEPT !.ssh_client = ssh_assign(be.sessions + 1)]
                     /\ IF ssh_connected(Builder) = "return"
                        THEN Return(ll, h)
                        ELSE /\ loc' = [ll EXCEPT !.i = @ + 1]
                             /\ UNCHANGED <<pc, pending, alarm, h>>
                ELSE /\ UNCHANGED <<b, be>>
                     /\ IF ssh_except(Builder, o) = "retry"
                        THEN /\ loc' = [ll EXCEPT !.i = @ + 1,
                                                  !.transients = @ + 1,
                                                  !.delays = Append(@, ssh_delay(Builder))]
                             /\ UNCHANGED <<pc, pending, alarm, h>>
                        ELSE Raise(o, ll, h)
     \/ /\ ~ssh_in_range(loc.i)
        /\ Raise("ValueError", loc, h)
        /\ UNCHANGED <<b, be>>
  /\ UNCHANGED <<entry, cfg, err>>

(* libvirt.py wait_for_ssh: while time.time() - start_time < timeout: the  *)
(* address first (a sleep and the next iteration without one), then one    *)
(* SSHClient(...).                                                         *)
LibvirtWaitForSsh ==
  /\ pc = "libvirt_ssh"
  /\ \/ /\ loc.elapsed < LibvirtSshTimeout
        /\ ~loc.ip
        /\ \E has \in Addresses(Builder, cfg) : ip_addr(Builder, has) = "none"
        /\ loc' = [loc EXCEPT !.elapsed = @ + LibvirtSshDelay]
        /\ UNCHANGED <<pc, pending, alarm, h, b, be>>
     \/ /\ loc.elapsed < LibvirtSshTimeout
        /\ \E o \in ConnectOutcomes, d \in ConnectDurations,
              has \in Addresses(Builder, cfg) :
             LET found == ip_addr(Builder, has)
                 ll == [loc EXCEPT !.attempts = @ + 1, !.ip = TRUE,
                                   !.rejected = @ \/ o = "PasswordRequiredException",
                                   !.has = has,
                                   !.ip_addr = IF loc.ip THEN @ ELSE found]
             IN /\ IF loc.ip THEN has = loc.has ELSE found # "none"
                /\ IF o = "ok"
                   THEN /\ be' = [be EXCEPT !.sessions = @ + 1]
                        /\ b' = [b EXCEPT !.ssh_client = ssh_assign(be.sessions + 1)]
                        /\ IF ssh_connected(Builder) = "return"
                           THEN Return(ll, h)
                           ELSE /\ loc' = [ll EXCEPT !.elapsed = @ + d]
                                /\ UNCHANGED <<pc, pending, alarm, h>>
                   ELSE /\ UNCHANGED <<b, be>>
                        /\ IF ssh_except(Builder, o) = "retry"
                           THEN /\ loc' = [ll EXCEPT !.transients = @ + 1,
                                                     !.elapsed = @ + d + ssh_delay(Builder),
                                                     !.delays = Append(@, ssh_delay(Builder))]
                                /\ UNCHANGED <<pc, pending, alarm, h>>
                           ELSE Raise(o, ll, h)
     \/ /\ loc.elapsed >= LibvirtSshTimeout
        /\ Raise("RuntimeError", loc, h)
        /\ UNCHANGED <<b, be>>
  /\ UNCHANGED <<entry, cfg, err>>

(* ------------------------------ copy_files, configure ------------------ *)
(* A copy_files that finds nothing to upload. *)
uploads_items_none(c) == <<>>

(* self.config["uploads"].items(): the (source, destination) pairs of the  *)
(* mapping, each once.                                                     *)
uploads_items(c) == c.uploads

(* common.py copy_files: one ssh_client.copy per item of uploads. *)
CopyFiles ==
  /\ pc = "copy_files"
  /\ \/ /\ loc.i < Len(uploads_items(cfg))
        /\ IF b.ssh_client = 0
           THEN Raise("AttributeError", loc, h)
           ELSE \/ /\ loc' = [loc EXCEPT !.i = @ + 1]
                   /\ h' = [h EXCEPT !.copied =
                              Append(@, [item |-> uploads_items(cfg)[loc.i + 1],
                                         session |-> b.ssh_client])]
                   /\ UNCHANGED <<pc, pending, alarm>>
                \/ Raise("IOError", loc, h)
     \/ /\ loc.i = Len(uploads_items(cfg))
        /\ Return(loc, h)
  /\ UNCHANGED <<entry, cfg, err, b, be>>

(* A configure that prints success whatever the retval. *)
report_succeeded(retval) == "succeeded"

(* What configure prints for a command's result. *)
report(retval) == IF retval = 0 THEN "succeeded" ELSE "failed"

(* A configure that gives up at the first command with a non-zero retval. *)
ConfigureFailFast ==
  /\ pc = "configure"
  /\ \/ /\ loc.i < Len(cfg.commands)
        /\ IF b.ssh_client = 0
           THEN Raise("AttributeError", loc, h)
           ELSE \/ \E rv \in ExitCodes :
                     LET hh == [h EXCEPT !.executed =
                                  Append(@, [cmd |-> cfg.commands[loc.i + 1],
                                             session |-> b.ssh_client]),
                                         !.retvals = Append(@, rv),
                                         !.reported = Append(@, report(rv))]
                     IN IF rv = 0
                        THEN /\ loc' = [loc EXCEPT !.i = @ + 1]
                             /\ h' = hh
                             /\ UNCHANGED <<pc, pending, alarm>>
                        ELSE Raise("CommandFailed", loc, hh)
                \/ Raise("SSHException", loc, h)
     \/ /\ loc.i = Len(cfg.commands)
        /\ Return(loc, h)
  /\ UNCHANGED <<entry, cfg, err, b, be>>

(* common.py configure: one ssh_client.execute per command; the retval     *)
(* only chooses what is printed.                                           *)
Configure ==
  /\ pc = "configure"
  /\ \/ /\ loc.i < Len(cfg.commands)
        /\ IF b.ssh_client = 0
           THEN Raise("AttributeError", loc, h)
           ELSE \/ \E rv \in ExitCodes :
                     LET hh == [h EXCEPT !.executed =
                                  Append(@, [cmd |-> cfg.commands[loc.i + 1],
                                             session |-> b.ssh_client]),
                                         !.retvals = Append(@, rv),
                                         !.reported = Append(@, report(rv))]
                     IN /\ loc' = [loc EXCEPT !.i = @ + 1]
                        /\ h' = hh
                        /\ UNCHANGED <<pc, pending, alarm>>
                \/ Raise("SSHException", loc, h)
     \/ /\ loc.i = Len(cfg.commands)
        /\ Return(loc, h)
  /\ UNCHANGED <<entry, cfg, err, b, be>>

(* ------------------------------ raising -------------------------------- *)
(* An exception leaves the running call: out of a method of the with-body  *)
(* it reaches the with statement; out of __exit__ it reaches the caller of *)
(* bake, in place of the one in flight.                                    *)
Throw(e) ==
  IF LastPhase = "exit"
  THEN /\ pc' = "done"
       /\ err' = e
       /\ h' = [h EXCEPT !.td = Append(@, pc), !.tdRaised = @ \cup {pc}]
       /\ UNCHANGED <<pending, alarm, loc>>
  ELSE /\ Raise(e, loc, h)
       /\ UNCHANGED err

(* A sub-step of __exit__ was executed. *)
Did(step) == [h EXCEPT !.td = Append(@, step)]

(* An except clause caught the error of a step and went on. *)
Caught(hh, step) ==
  [hh EXCEPT !.caught = @ \cup {step},
             !.tdRaised = IF LastPhase = "exit" THEN @ \cup {step} ELSE @]

(* __exit__ returns None: the exception in flight, if any, goes on to the  *)
(* caller of bake.                                                         *)
ExitReturns(hh) ==
  /\ pc' = "done"
  /\ err' = pending
  /\ h' = hh
  /\ UNCHANGED <<pending, alarm, loc>>

(* The operator presses Ctrl-C while a call of __enter__, of the with-body *)
(* or of __exit__ runs: KeyboardInterrupt is raised there.  No except      *)
(* clause of the builders names it or BaseException.  As for the alarm,    *)
(* the signal finds the method in a call that takes time.                  *)
Interrupt ==
  /\ LastPhase # "none"
  /\ Blocking
  /\ pc \notin {"bake", "done", "deleted", "listed"}
  /\ CASE LastPhase = "acquire" ->
            Abort("KeyboardInterrupt") /\ UNCHANGED <<pending, alarm, loc>>
       [] LastPhase = "exit" -> Throw("KeyboardInterrupt")
       [] OTHER -> Raise("KeyboardInterrupt", NoLocals, h) /\ UNCHANGED err
  /\ UNCHANGED <<entry, cfg, b, be>>

(* ------------------------------ create_image --------------------------- *)
ImageProgress(s) ==
  IF s = "pending" THEN {"pending", "available", "failed"} ELSE {s}

(* Somebody else registers an image of the spec's name while the bake      *)
(* runs (seen by the bake only from create_image on).                      *)
OtherCreatesImage ==
  /\ pc = "bake" /\ pending = "none" /\ LastPhase = "configure"
  /\ ~be.oldImage
  /\ be' = [be EXCEPT !.oldImage = TRUE]
  /\ UNCHANGED <<entry, cfg, pc, pending, err, alarm, b, loc, h>>

(* aws.py create_image: instance.create_image(Name=self.name) is refused   *)
(* when the name is taken.                                                 *)
AwsCreateImage ==
  /\ pc = "create_image"
  /\ \/ /\ ~be.oldImage
        /\ be' = [be EXCEPT !.image = "pending", !.imageName = SpecName]
        /\ b' = [b EXCEPT !.image = TRUE]
        /\ pc' = "create_tags"
        /\ h' = Created(h, "image")
        /\ UNCHANGED <<pending, alarm, loc>>
     \/ /\ Raise("BackendError", loc, h)
        /\ UNCHANGED <<b, be>>
  /\ UNCHANGED <<entry, cfg, err>>

(* aws.py create_image: the first item of each mapping of the spec's tags, *)
(* then Description and Name.                                              *)
aws_tags(tags, name, desc) ==
  [k \in DOMAIN tags |-> tags[k][1]]
    \o << <<"Description", desc>>, <<"Name", name>> >>

AwsCreateTags ==
  /\ pc = "create_tags"
  /\ \/ /\ be' = [be EXCEPT !.imageTags =
                     Range(aws_tags(cfg.tags, SpecName, SpecDescription))]
        /\ pc' = "image_poll"
        /\ UNCHANGED <<pending, alarm, loc, h>>
     \/ Raise("BackendError", loc, h) /\ UNCHANGED be
  /\ UNCHANGED <<entry, cfg, err, b>>

(* is_image_complete: image.reload(), then state == "available" *)
is_image_complete(state) == state = "available"

(* os.py is_image_complete: pass; the call returns None. *)
os_is_image_complete(state) == FALSE

(* while not self.is_image_complete(): time.sleep(5); ret is what the last *)
(* call returned.                                                          *)
AwsImagePoll ==
  /\ pc = "image_poll"
  /\ \/ \E s \in ImageProgress(be.image) :
          /\ be' = [be EXCEPT !.image = s]
          /\ IF is_image_complete(s)
             THEN Return([loc EXCEPT !.ret = "true"], h)
             ELSE /\ loc' = [loc EXCEPT !.ret = "false"]
                  /\ UNCHANGED <<pc, pending, alarm, h>>
     \/ /\ Raise("BackendError", [loc EXCEPT !.ret = "raised"], h)
        /\ UNCHANGED be
  /\ UNCHANGED <<entry, cfg, err, b>>

(* _shutdown_machine and _destroy_machine are called by create_image and   *)
(* by clean; where they go on to depends on the caller.                    *)
AfterShutdown ==
  CASE Builder = "libvirt" /\ LastPhase = "create_image" -> "convert"
    [] OTHER -> "destroy_machine"

AfterDestroy ==
  CASE LastPhase = "create_image" -> "get_image"
    [] Builder = "openstack" -> "td_sg"
    [] OTHER -> "td_rmtree"

Logged(step) == IF LastPhase = "exit" THEN Did(step) ELSE h

(* os.py _shutdown_machine: get_server, then stop_server unless SHUTOFF *)
OsShutdownMachine ==
  /\ pc = "shutdown_machine" /\ Builder = "openstack"
  /\ \/ /\ be.inst \notin {"none", "stopped"}
        /\ be' = [be EXCEPT !.inst = "stopping"]
        /\ pc' = AfterShutdown
        /\ h' = Logged("shutdown_machine")
        /\ UNCHANGED <<pending, err, alarm, loc>>
     \/ /\ be.inst \in {"none", "stopped"}
        /\ pc' = AfterShutdown
        /\ h' = Logged("shutdown_machine")
        /\ UNCHANGED <<pending, err, alarm, loc, be>>
     \/ /\ Throw("BackendError")
        /\ UNCHANGED be
  /\ UNCHANGED <<entry, cfg, b>>

(* os.py _destroy_machine: delete_server(wait=True, timeout=360) when      *)
(* get_server finds the server.                                            *)
OsDestroyMachine ==
  /\ pc = "destroy_machine" /\ Builder = "openstack"
  /\ \/ /\ be' = [be EXCEPT !.inst = "none"]
        /\ pc' = AfterDestroy
        /\ h' = Logged("destroy_machine")
        /\ UNCHANGED <<pending, err, alarm, loc>>
     \/ /\ Throw("BackendError")
        /\ UNCHANGED be
  /\ UNCHANGED <<entry, cfg, b>>

(* os.py create_image: an image of that name is deleted first. *)
OsGetImage ==
  /\ pc = "get_image"
  /\ \/ /\ be' = [be EXCEPT !.oldImage = FALSE]
        /\ pc' = "volume_wait"
        /\ UNCHANGED <<pending, alarm, loc, h>>
     \/ /\ Raise("BackendError", loc, h)
        /\ UNCHANGED be
  /\ UNCHANGED <<entry, cfg, err, b>>

(* for i in range(0, 360): get_volume(...).status; break when available;   *)
(* RuntimeError after the loop unless available.  self.instance.volumes[0] *)
(* is read from the server record fetched last.                            *)
OsVolumeWait ==
  /\ pc = "volume_wait"
  /\ \/ /\ ~b.volumes
        /\ Raise("IndexError", loc, h)
     \/ /\ b.volumes /\ loc.i < VolumeTries
        /\ \/ /\ pc' = "os_create_image"
              /\ loc' = [loc EXCEPT !.i = 0]
              /\ UNCHANGED <<pending, alarm, h>>
           \/ /\ loc' = [loc EXCEPT !.i = @ + 1]
              /\ UNCHANGED <<pc, pending, alarm, h>>
           \/ Raise("BackendError", loc, h)
     \/ /\ b.volumes /\ loc.i = VolumeTries
        /\ Raise("RuntimeError", loc, h)
  /\ UNCHANGED <<entry, cfg, err, b, be>>

(* client.create_image(image_name, wait=True, ...), then the tags as image *)
(* properties.                                                             *)
OsCreateImage ==
  /\ pc = "os_create_image"
  /\ \/ /\ be' = [be EXCEPT !.image = "available", !.imageName = SpecName]
        /\ b' = [b EXCEPT !.image = TRUE]
        /\ pc' = "update_image_properties"
        /\ h' = Created(h, "image")
        /\ UNCHANGED <<pending, alarm, loc>>
     \/ /\ Raise("BackendError", loc, h)
        /\ UNCHANGED <<b, be>>
  /\ UNCHANGED <<entry, cfg, err>>

(* os.py create_image: all_values.update(tag) for each mapping of the      *)
(* spec's tags: for a key given twice the later value stays.               *)
os_properties(tags) ==
  LET items == UNION {{<<k, j>> : j \in DOMAIN tags[k]} : k \in DOMAIN tags}
      later(k, key) == \E k2 \in DOMAIN tags :
                         k2 > k /\ \E j \in DOMAIN tags[k2] : tags[k2][j][1] = key
  IN {tags[q[1]][q[2]] : q \in {r \in items : ~later(r[1], tags[r[1]][r[2]][1])}}

(* if tags: update_image_properties(name_or_id=image.id, **all_values) *)
OsUpdateImageProperties ==
  /\ pc = "update_image_properties"
  /\ \/ /\ cfg.tags = <<>>
        /\ Return(loc, h)
        /\ UNCHANGED be
     \/ /\ cfg.tags # <<>>
        /\ be' = [be EXCEPT !.imageTags = os_properties(cfg.tags)]
        /\ Return(loc, h)
     \/ /\ cfg.tags # <<>>
        /\ Raise("BackendError", loc, h)
        /\ UNCHANGED be
  /\ UNCHANGED <<entry, cfg, err, b>>

(* libvirt.py _sysprep: the cleanup commands over the session *)
LibvirtSysprep ==
  /\ pc = "sysprep"
  /\ \/ /\ b.ssh_client # 0
        /\ pc' = "shutdown_machine"
        /\ UNCHANGED <<pending, alarm, loc, h>>
     \/ Raise("SSHException", loc, h)
  /\ UNCHANGED <<entry, cfg, err, b, be>>

(* libvirt.py _shutdown_machine: state(); shutdown() and _wait_for_shutdown *)
(* when RUNNING; libvirtError is caught and printed.                       *)
LibvirtShutdownMachine ==
  /\ pc = "shutdown_machine" /\ Builder = "libvirt"
  /\ \/ /\ be.inst = "running"
        /\ be' = [be EXCEPT !.inst = "stopping"]
        /\ pc' = "wait_for_shutdown"
        /\ loc' = [loc EXCEPT !.i = 0]
        /\ h' = Logged("shutdown_machine")
     \/ /\ be.inst # "running"
        /\ pc' = AfterShutdown
        /\ h' = Logged("shutdown_machine")
        /\ UNCHANGED <<loc, be>>
     \/ /\ pc' = AfterShutdown
        /\ h' = Caught(Logged("shutdown_machine"), "shutdown_machine")
        /\ UNCHANGED <<loc, be>>
  /\ UNCHANGED <<entry, cfg, pending, err, alarm, b>>

(* _wait_for_shutdown: for _ in range(120): state(); return when SHUTOFF   *)
(* or on libvirtError; sleep(1); destroy() after the loop.  The loop       *)
(* variable is dead once the loop is left.                                 *)
LibvirtWaitForShutdown ==
  /\ pc = "wait_for_shutdown"
  /\ \/ /\ loc.i < WaitShutdownTries
        /\ \E s \in Progress(be.inst) :
             /\ be' = [be EXCEPT !.inst = s]
             /\ IF s = "stopped"
                THEN pc' = AfterShutdown /\ loc' = [loc EXCEPT !.i = 0]
                ELSE loc' = [loc EXCEPT !.i = @ + 1] /\ UNCHANGED pc
        /\ UNCHANGED h
     \/ /\ loc.i < WaitShutdownTries
        /\ pc' = AfterShutdown
        /\ loc' = [loc EXCEPT !.i = 0]
        /\ h' = Caught(h, "wait_for_shutdown")
        /\ UNCHANGED be
     \/ /\ loc.i = WaitShutdownTries
        /\ \/ be' = [be EXCEPT !.inst = "stopped"] /\ UNCHANGED h
           \/ h' = Caught(h, "wait_for_shutdown") /\ UNCHANGED be
        /\ pc' = AfterShutdown
        /\ loc' = [loc EXCEPT !.i = 0]
  /\ UNCHANGED <<entry, cfg, pending, err, alarm, b>>

(* qemu-img convert of the work disk into output_path *)
LibvirtConvert ==
  /\ pc = "convert"
  /\ \/ /\ be' = [be EXCEPT !.image = "available", !.imageName = SpecName,
                            !.oldImage = FALSE]
        /\ b' = [b EXCEPT !.image = TRUE]
        /\ Return(loc, Created(h, "image"))
     \/ /\ Raise("CalledProcessError", loc, h)
        /\ UNCHANGED <<b, be>>
  /\ UNCHANGED <<entry, cfg, err>>

(* ------------------------------ __exit__ ------------------------------- *)
(* aws.py __exit__: key.delete(); terminate or _locate_renegade_instance;  *)
(* wait_for_status(48); sec_grp.delete(); os.remove(<key name>.pem).       *)
AwsKeyDelete ==
  /\ pc = "td_key_delete"
  /\ \/ /\ be' = [be EXCEPT !.keypair = FALSE]
        /\ pc' = "td_terminate"
        /\ h' = Did("td_key_delete")
        /\ UNCHANGED <<pending, err, alarm, loc>>
     \/ /\ Throw("BackendError")
        /\ UNCHANGED be
  /\ UNCHANGED <<entry, cfg, b>>

Terminated(s) == IF s \in {"none", "terminated"} THEN s ELSE "shutting-down"

(* _locate_renegade_instance: the last of the instances launched with the  *)
(* key's name; [...][-1] of an empty list is an IndexError.                *)
AwsTerminate ==
  /\ pc = "td_terminate"
  /\ \/ /\ b.instance
        /\ be' = [be EXCEPT !.inst = Terminated(@)]
        /\ pc' = "td_wait_terminated"
        /\ h' = Did("td_terminate")
        /\ UNCHANGED <<pending, err, alarm, loc, b>>
     \/ /\ ~b.instance /\ be.inst # "none"
        /\ be' = [be EXCEPT !.inst = Terminated(@)]
        /\ b' = [b EXCEPT !.instance = TRUE, !.status = be.inst]
        /\ pc' = "td_wait_terminated"
        /\ h' = [h EXCEPT !.td = @ \o <<"td_locate_renegade", "td_terminate">>]
        /\ UNCHANGED <<pending, err, alarm, loc>>
     \/ /\ ~b.instance /\ be.inst = "none"
        /\ Throw("IndexError")
        /\ UNCHANGED <<b, be>>
     \/ /\ Throw("BackendError")
        /\ UNCHANGED <<b, be>>
  /\ UNCHANGED <<entry, cfg>>

(* wait_for_status(48) *)
AwsWaitTerminated ==
  /\ pc = "td_wait_terminated"
  /\ \/ /\ ~wait_for_status_reached(AwsCode(b.status), TerminatedCode)
        /\ \E s \in Progress(be.inst) :
             /\ be' = [be EXCEPT !.inst = s]
             /\ b' = [b EXCEPT !.status = reload(@, s)]
        /\ UNCHANGED <<pc, pending, err, alarm, loc, h>>
     \/ /\ ~wait_for_status_reached(AwsCode(b.status), TerminatedCode)
        /\ Throw("BackendError")
        /\ UNCHANGED <<b, be>>
     \/ /\ wait_for_status_reached(AwsCode(b.status), TerminatedCode)
        /\ pc' = "td_sg_delete"
        /\ h' = Did("td_wait_terminated")
        /\ UNCHANGED <<pending, err, alarm, loc, b, be>>
  /\ UNCHANGED <<entry, cfg>>

(* sec_grp.delete(): EC2 answers InvalidGroup.NotFound (a ClientError) for *)
(* a group that is gone.                                                   *)
AwsSgDelete ==
  /\ pc = "td_sg_delete"
  /\ \/ /\ be.secgroup
        /\ be' = [be EXCEPT !.secgroup = FALSE, !.rules = 0]
        /\ pc' = "td_rm_pem"
        /\ h' = Did("td_sg_delete")
        /\ UNCHANGED <<pending, err, alarm, loc>>
     \/ /\ be.secgroup
        /\ Throw("BackendError")
        /\ UNCHANGED be
     \/ /\ ~be.secgroup
        /\ Throw("ClientError")
        /\ UNCHANGED be
  /\ UNCHANGED <<entry, cfg, b>>

(* os.remove(<key name>.pem): FileNotFoundError when the file is gone. *)
AwsRemovePem ==
  /\ pc = "td_rm_pem"
  /\ \/ /\ be.pem
        /\ be' = [be EXCEPT !.pem = FALSE]
        /\ ExitReturns(Did("td_rm_pem"))
     \/ /\ be.pem
        /\ Throw("OSError")
        /\ UNCHANGED be
     \/ /\ ~be.pem
        /\ Throw("FileNotFoundError")
        /\ UNCHANGED be
  /\ UNCHANGED <<entry, cfg, b>>

(* os.py clean, after the machine: the security group, the keypair, the    *)
(* volume of self.instance.volumes.                                        *)
OsSgDelete ==
  /\ pc = "td_sg"
  /\ \/ /\ be' = [be EXCEPT !.secgroup = (@ /\ ~b.sec_grp),
                            !.rules = IF b.sec_grp THEN 0 ELSE @]
        /\ pc' = "td_key"
        /\ h' = Did("td_sg")
        /\ UNCHANGED <<pending, err, alarm, loc>>
     \/ /\ b.sec_grp
        /\ Throw("BackendError")
        /\ UNCHANGED be
  /\ UNCHANGED <<entry, cfg, b>>

OsKeyDelete ==
  /\ pc = "td_key"
  /\ \/ /\ be' = [be EXCEPT !.keypair = (@ /\ ~b.key)]
        /\ pc' = "td_volume"
        /\ h' = Did("td_key")
        /\ UNCHANGED <<pending, err, alarm, loc>>
     \/ /\ b.key
        /\ Throw("BackendError")
        /\ UNCHANGED be
  /\ UNCHANGED <<entry, cfg, b>>

(* if self.instance.volumes: an AttributeError when self.instance is None *)
OsVolumeDelete ==
  /\ pc = "td_volume"
  /\ \/ /\ b.instance
        /\ be' = [be EXCEPT !.volume = (@ /\ ~b.volumes)]
        /\ ExitReturns(Did("td_volume"))
     \/ /\ b.instance /\ b.volumes
        /\ Throw("BackendError")
        /\ UNCHANGED be
     \/ /\ ~b.instance
        /\ Throw("AttributeError")
        /\ UNCHANGED be
  /\ UNCHANGED <<entry, cfg, b>>

(* libvirt.py _destroy_machine: undefine(), libvirtError caught; an active *)
(* domain stays, as a transient one, until it is shut off.                 *)
LibvirtDestroyMachine ==
  /\ pc = "destroy_machine" /\ Builder = "libvirt"
  /\ \/ /\ be' = [be EXCEPT !.inst = IF @ = "stopped" THEN "none" ELSE @]
        /\ h' = Logged("destroy_machine")
     \/ /\ h' = Caught(Logged("destroy_machine"), "destroy_machine")
        /\ UNCHANGED be
  /\ pc' = AfterDestroy
  /\ UNCHANGED <<entry, cfg, pending, err, alarm, b, loc>>

(* libvirt.py clean: shutil.rmtree(self.work_dir) when it exists *)
LibvirtRmtree ==
  /\ pc = "td_rmtree"
  /\ \/ /\ be' = [be EXCEPT !.workdir = (@ /\ ~b.work_dir)]
        /\ ExitReturns(Did("td_rmtree"))
     \/ /\ b.work_dir /\ be.workdir
        /\ Throw("OSError")
        /\ UNCHANGED be
  /\ UNCHANGED <<entry, cfg, b>>

(* ------------------------------ teardown, again ----------------------- *)
(* How often __exit__ has been called. *)
ExitRuns == Cardinality({k \in DOMAIN h.phases : h.phases[k] = "exit"})

(* __exit__ is called once more on the builder, right after a first call   *)
(* that went through all its sub-steps.                                    *)
ExitAgain ==
  /\ pc = "done" /\ LastPhase = "exit" /\ ExitRuns = 1
  /\ h.tdRaised = {} /\ err = pending
  /\ Enter("exit")
  /\ UNCHANGED <<entry, cfg, pending, err, b, be>>

(* ------------------------------ list, delete --------------------------- *)
(* list_images: the names of the images the backend holds (libvirt: the    *)
(* image files).                                                           *)
list_images(bk) ==
  (IF bk.image # "none" THEN {bk.imageName} ELSE {})
    \cup (IF bk.oldImage THEN {SpecName} ELSE {})

(* A delete that leaves the backend as it was. *)
deregister_nothing(bk) == bk

(* image.deregister() / image.delete_image(img_id) / os.remove(image_path) *)
deregister(bk) ==
  [bk EXCEPT !.image = "none", !.imageName = "none", !.imageTags = {}]

(* delete_image, called with the identifier of the image the bake made.    *)
(* aws.py returns the response of deregister(), the others return None.    *)
DeleteImage ==
  /\ pc = "done" /\ err = "none" /\ b.image /\ be.image # "none"
  /\ pc' = "deleted"
  /\ \/ /\ be' = deregister(be)
        /\ loc' = [loc EXCEPT !.ret = IF Builder = "aws" THEN "HTTP200" ELSE "None"]
        /\ UNCHANGED err
     \/ /\ err' = IF Builder = "libvirt" THEN "OSError" ELSE "BackendError"
        /\ loc' = [loc EXCEPT !.ret = "raised"]
        /\ UNCHANGED be
  /\ UNCHANGED <<entry, cfg, pending, alarm, b, h>>

ListImages ==
  /\ pc = "deleted"
  /\ pc' = "listed"
  /\ h' = [h EXCEPT !.listed = list_images(be)]
  /\ UNCHANGED <<entry, cfg, pending, err, alarm, b, be, loc>>

(* ------------------------------ specification -------------------------- *)
Next ==
  \/ CheckConfig \/ ValidateImageName \/ LibvirtGetClient \/ BuilderInit \/ Bake
  \/ AwsCreateKeyPair \/ AwsWritePem \/ AwsCreateSecurityGroup \/ AwsAuthorizeIngress
  \/ OsGetKeypair \/ OsCreateKeypair \/ OsGetSecurityGroup \/ OsCreateSecurityGroup
  \/ OsCreateRule \/ OtherMakesNewGroup \/ LibvirtMkdtemp \/ LibvirtGenerateKey
  \/ AlarmFires
  \/ AwsCreateInstances \/ AwsWaitUntilRunning
  \/ OsCreateServer \/ OsWaitActive \/ OsCreateFloatingIp \/ OsAddFloatingIp
  \/ LibvirtPrepareDisk \/ LibvirtCloudInitIso \/ LibvirtDefineXML
  \/ LibvirtDomainCreate \/ LibvirtWaitForRunning
  \/ AwsWaitStatusRunning \/ OsResolveAddress \/ SshConnect \/ LibvirtWaitForSsh
  \/ CopyFiles \/ Configure
  \/ OtherCreatesImage
  \/ AwsCreateImage \/ AwsCreateTags \/ AwsImagePoll
  \/ OsShutdownMachine \/ OsDestroyMachine \/ OsGetImage \/ OsVolumeWait
  \/ OsCreateImage \/ OsUpdateImageProperties
  \/ LibvirtSysprep \/ LibvirtShutdownMachine \/ LibvirtWaitForShutdown
  \/ LibvirtConvert \/ LibvirtDestroyMachine
  \/ AwsKeyDelete \/ AwsTerminate \/ AwsWaitTerminated \/ AwsSgDelete \/ AwsRemovePem
  \/ OsSgDelete \/ OsKeyDelete \/ OsVolumeDelete \/ LibvirtRmtree
  \/ DeleteImage \/ ListImages
  \/ Interrupt
  \/ ExitAgain

Spec == Init /\ [][Next]_vars

(* ------------------------------ properties ----------------------------- *)
Phases == Range(h.phases)

(* bake has returned to its caller, normally or with an exception. *)
Returned == pc = "done"

(* The sub-steps __exit__ (aws.py) or clean (os.py, libvirt.py) has to go  *)
(* through for the builder as it is.                                       *)
TeardownSteps ==
  CASE Builder = "aws" ->
         {"td_key_delete", "td_terminate", "td_wait_terminated",
          "td_sg_delete", "td_rm_pem"}
    [] Builder = "openstack" ->
         {"td_sg", "td_key", "td_volume"}
           \cup (IF b.instance THEN {"shutdown_machine", "destroy_machine"} ELSE {})
    [] OTHER ->
         {"td_rmtree"}
           \cup (IF b.instance THEN {"shutdown_machine", "destroy_machine"} ELSE {})

(* A call of teardown failed for a reason outside the program: every raise *)
(* in teardown but the IndexError and the AttributeError the code itself   *)
(* runs into.                                                              *)
TeardownFault ==
  /\ h.tdRaised # {}
  /\ ~(Builder # "libvirt" /\ err \in {"IndexError", "AttributeError"})

(* C1: after a bake in which launch, wait_for_ssh, copy_files, configure   *)
(* or create_image failed (and no call of teardown was made to fail), no   *)
(* keypair, security group, instance or work directory of the run exists   *)
(* once bake has returned.                                                 *)
C1_NothingLeftAfterFailure ==
  (Returned /\ h.failedIn \in Range(PhaseOrder) /\ ~TeardownFault) =>
     /\ ~be.keypair
     /\ ~be.secgroup
     /\ ~InstanceExists
     /\ ~be.workdir

(* C2: when __enter__ fails in the creation of the security group or of    *)
(* its rules after the keypair was created, the keypair, the security      *)
(* group, the key file and the work directory are gone when the error      *)
(* reaches the caller, and launch was never called.                        *)
C2_AcquireFailureReleases ==
  (Returned /\ h.failedIn = "acquire" /\ "keypair" \in h.created
     /\ h.failedAt \in {"get_security_group", "create_security_group",
                        "authorize_ingress", "create_rule"}) =>
     /\ ~be.keypair
     /\ ~be.secgroup
     /\ ~be.pem
     /\ ~be.workdir
     /\ "launch" \notin Phases

(* C3: when a sub-step of teardown raises, every other sub-step is still   *)
(* executed and teardown raises nothing: the caller gets what was in       *)
(* flight when teardown began.                                             *)
C3_TeardownGoesOn ==
  (Returned /\ "exit" \in Phases /\ h.tdRaised # {}) =>
     /\ TeardownSteps \subseteq Range(h.td)
     /\ err = pending

(* C4: after a bake in which every phase succeeded and no call failed, in  *)
(* teardown or before, no keypair, security group, instance, boot volume, floating IP,  *)
(* key file or work directory of the run exists: only the image does.      *)
C4_OnlyTheImageRemains ==
  (Returned /\ "exit" \in Phases /\ h.failedIn = "none" /\ h.tdRaised = {}
     /\ h.caught = {}) =>
     /\ ~be.keypair
     /\ ~be.secgroup
     /\ ~InstanceExists
     /\ ~be.volume
     /\ ~be.fip
     /\ ~be.pem
     /\ ~be.workdir
     /\ be.image = "available"

(* C5: a build spec that lacks a required key (region not counted when    *)
(* the config names a provider that needs none: openstack, libvirt) makes  *)
(* bake fail in check_config with BadConfigFile, before anything is        *)
(* created.                                                                *)
C5_MissingKeyIsBadConfigFile ==
  LET regionless == cfg.provider \in {"openstack", "libvirt"}
      lacking == cfg.missing \ (IF regionless THEN {"region"} ELSE {})
  IN (pc # "check_config" /\ lacking # {}) =>
        /\ Returned
        /\ err = "BadConfigFile"
        /\ h.created = {}

(* C6: check_config raises nothing for a config that holds all eight       *)
(* required keys, with or without the optional provider key.               *)
C6_CompleteConfigPasses ==
  (pc # "check_config" /\ cfg.missing = {}) =>
     ~(Returned /\ h.failedIn = "preflight" /\ err \in {"KeyError", "BadConfigFile"})

(* wait_for_ssh has just returned to bake, or raised. *)
SshReturned == pc = "bake" /\ LastPhase = "wait_for_ssh" /\ pending = "none"
SshRaised == pc = "bake" /\ LastPhase = "wait_for_ssh" /\ pending # "none"

(* C7: when wait_for_ssh of the AWS or the OpenStack builder returns after *)
(* N transient failures, N < 15, it made N + 1 attempts, slept the fixed   *)
(* delay once after each failure, and ssh_client is the session the last   *)
(* attempt opened.                                                         *)
C7_RetriesThenSession ==
  (SshReturned /\ Builder \in {"aws", "openstack"}) =>
     /\ loc.transients < SshAttempts
     /\ loc.attempts = loc.transients + 1
     /\ Len(loc.delays) = loc.attempts - 1
     /\ \A k \in DOMAIN loc.delays : loc.delays[k] = SshDelay
     /\ b.ssh_client = be.sessions
     /\ b.ssh_client # 0

C7_FourteenFailuresThenSuccess ==
  /\ SshReturned
  /\ Builder \in {"aws", "openstack"}
  /\ loc.transients = SshAttempts - 1
  /\ loc.attempts = SshAttempts
  /\ b.ssh_client # 0

(* C8 as stated: whatever the builder, wait_for_ssh makes at most 15       *)
(* connection attempts.                                                    *)
C8_AtMostFifteenAttempts ==
  (LastPhase = "wait_for_ssh") => loc.attempts <= SshAttempts

(* C8, amended: AWS and OpenStack make at most 15 attempts; libvirt starts *)
(* an attempt only within 300 s of the first, at least 5 s apart.  When    *)
(* all attempts failed transiently and the budget is used up the phase     *)
(* raises its timeout error; after a failed wait_for_ssh no copy_files,    *)
(* configure or create_image is called, and teardown has run when bake     *)
(* returns.                                                                *)
C8_BudgetThenTeardown ==
  /\ (LastPhase = "wait_for_ssh" /\ Builder # "libvirt") =>
        loc.attempts <= SshAttempts
  /\ (LastPhase = "wait_for_ssh" /\ Builder = "libvirt") =>
        /\ loc.attempts * LibvirtSshDelay <= LibvirtSshTimeout
        /\ (pc = "libvirt_ssh" => loc.elapsed >= loc.transients * LibvirtSshDelay)
  /\ (SshRaised /\ Builder # "libvirt" /\ loc.transients = SshAttempts) =>
        pending = "ValueError"
  /\ (SshRaised /\ Builder = "libvirt" /\ loc.transients = loc.attempts
        /\ loc.elapsed >= LibvirtSshTimeout) =>
        pending = "RuntimeError"
  /\ (h.failedIn = "wait_for_ssh") =>
        /\ Phases \cap {"copy_files", "configure", "create_image"} = {}
        /\ (Returned => "exit" \in Phases)

C8_FifteenFailures ==
  /\ SshRaised
  /\ Builder \in {"aws", "openstack"}
  /\ loc.attempts = SshAttempts
  /\ loc.transients = SshAttempts
  /\ pending = "ValueError"

(* C9: once a connection attempt of wait_for_ssh has failed with           *)
(* PasswordRequiredException the phase is over, with that exception: no    *)
(* builder is still in its connection loop.                                *)
C9_PasswordRequiredIsFatal ==
  loc.rejected => (pc = "bake" /\ pending = "PasswordRequiredException")

(* C10: configure calls execute once per command, in list order; it fails  *)
(* only when an execute call did not return, never because of a retval;    *)
(* and a build whose configure did not fail goes on to create_image with   *)
(* every command executed.                                                 *)
C10_EveryCommandOnceInOrder ==
  /\ Len(h.executed) = Len(h.retvals)
  /\ Len(h.executed) <= Len(cfg.commands)
  /\ \A k \in DOMAIN h.executed : h.executed[k].cmd = cfg.commands[k]
  /\ (h.failedIn = "configure") => Len(h.retvals) < Len(cfg.commands)
  /\ (pc = "bake" /\ LastPhase = "configure" /\ pending = "none") =>
        Len(h.executed) = Len(cfg.commands)
  /\ ("configure" \in Phases /\ LastPhase # "configure" /\ h.failedIn # "configure") =>
        /\ "create_image" \in Phases
        /\ Len(h.executed) = Len(cfg.commands)

C10_AllCommandsFailedImageStarted ==
  /\ LastPhase = "create_image"
  /\ Len(cfg.commands) = MaxCmds
  /\ Len(h.retvals) = MaxCmds
  /\ \A k \in DOMAIN h.retvals : h.retvals[k] # 0

(* configure has just returned to bake. *)
ConfigureReturned == pc = "bake" /\ LastPhase = "configure" /\ pending = "none"

(* The exit codes a printed result leaves possible: all that configure     *)
(* keeps of a retval is the line it prints.                                *)
CodesOf(line) == {rv \in ExitCodes : report(rv) = line}

ImageReturned == pc = "bake" /\ LastPhase = "create_image" /\ pending = "none"

(* The (key, value) items of the spec's tags. *)
SpecTags == {cfg.tags[k][1] : k \in DOMAIN cfg.tags}

(* C12: the image an AWS or OpenStack build has created carries Name (as a *)
(* tag or as the image's name), Description and every item of the spec's   *)
(* tags.                                                                   *)
C12_ImageCarriesNameDescriptionTags ==
  (ImageReturned /\ Builder \in {"aws", "openstack"}) =>
     /\ <<"Name", SpecName>> \in be.imageTags \/ be.imageName = SpecName
     /\ <<"Description", SpecDescription>> \in be.imageTags
     /\ SpecTags \subseteq be.imageTags

(* C13: is_image_complete of a builder that creates images through an API *)
(* returns true exactly when the image's status is "available", and        *)
(* create_image returns normally only after a call of it returned true.    *)
C13_CompleteOnlyWhenAvailable ==
  /\ (Builder = "aws" /\ be.image # "none") =>
        is_image_complete(be.image) = (be.image = "available")
  /\ (Builder = "openstack" /\ be.image # "none") =>
        os_is_image_complete(be.image) = (be.image = "available")
  /\ (ImageReturned /\ Builder \in {"aws", "openstack"}) =>
        /\ loc.ret = "true"
        /\ be.image = "available"

(* The alarm is delivered once its seconds have passed, and bake goes on   *)
(* after a method has returned or raised.                                  *)
LiveSpec == Spec /\ WF_vars(AlarmFires) /\ WF_vars(Bake)

(* C14: in the AWS builder, when the image polled by create_image does not *)
(* become "available", create_image does not return normally: the phase    *)
(* ends, with the decorator's TimeoutError when the polls themselves did   *)
(* not fail and the operator did not interrupt, and __exit__ is called     *)
(* then: polling leads to a normal return, which needs "available", or to  *)
(* teardown.                                                               *)
C14_StuckImageTimesOut ==
  /\ [](ImageReturned /\ Builder = "aws" => be.image = "available")
  /\ []((pc = "bake" /\ LastPhase = "create_image" /\ Builder = "aws"
           /\ loc.ret = "false" /\ pending # "KeyboardInterrupt")
          => pending = "util.TimeoutError")
  /\ (pc = "image_poll") ~> (ImageReturned \/ "exit" \in Phases)

C14_PolledThenTimedOut ==
  /\ pc = "bake" /\ LastPhase = "create_image" /\ Builder = "aws"
  /\ loc.ret = "false"
  /\ be.image \in {"pending", "failed"}
  /\ pending = "util.TimeoutError"

BakedImage == pc = "done" /\ err = "none" /\ b.image /\ be.image # "none"

(* C15: after a bake, delete_image called on the image the bake made        *)
(* removes it: the call returns (aws: the backend's response) and a list    *)
(* made afterwards does not hold the spec's name, which a list made before  *)
(* the delete did hold.                                                     *)
C15_DeleteRemovesTheImage ==
  /\ BakedImage => SpecName \in list_images(be)
  /\ (pc \in {"deleted", "listed"} /\ err = "none") =>
        /\ loc.ret = (IF Builder = "aws" THEN "HTTP200" ELSE "None")
        /\ SpecName \notin list_images(be)
  /\ (pc = "listed" /\ err = "none") => SpecName \notin h.listed

C15_BakedDeletedListed ==
  /\ pc = "listed" /\ err = "none" /\ Builder = "aws"
  /\ "image" \in h.created /\ LastPhase = "exit"
  /\ loc.ret = "HTTP200" /\ h.listed = {}

NothingAcquired ==
  /\ b = NoBuilder /\ h.created = {} /\ h.phases = <<>>
  /\ ~be.keypair /\ ~be.pem /\ ~be.secgroup /\ be.inst = "none" /\ ~be.workdir

(* C16: bake exits with code 2 exactly when, at the time of the name check, *)
(* an image of the spec's name (libvirt: a file at the output path) exists: *)
(* the exit comes out of that check with nothing acquired, and a bake that  *)
(* went past it found no such image.                                       *)
C16_ExitTwoWhenNameTaken ==
  /\ [](err = "SystemExit2" =>
          /\ pc = "done" /\ h.failedAt = "validate_image_name"
          /\ be.oldImage /\ NothingAcquired)
  /\ [][pc = "validate_image_name" =>
          /\ be.oldImage => pc' = "done" /\ err' \in {"SystemExit2", "BackendError"}
          /\ ~be.oldImage => err' # "SystemExit2"
          /\ pc' \in {"init", "get_client"} => ~be.oldImage
          /\ be' = be /\ b' = b]_vars

C16_NameTakenExitTwo ==
  pc = "done" /\ err = "SystemExit2" /\ be.oldImage /\ NothingAcquired

AllPhases == <<"acquire">> \o PhaseOrder \o <<"exit">>

(* The phases begun so far are the first ones of the fixed order, with     *)
(* teardown (exit) after them or not yet.                                  *)
InFixedOrder(ps) ==
  \E n \in 0..(Len(AllPhases) - 1) :
     \/ ps = SubSeq(AllPhases, 1, n)
     \/ ps = Append(SubSeq(AllPhases, 1, n), "exit")

(* C17: in every bake the phases run in the order acquire, launch,          *)
(* wait_for_ssh, copy_files, configure, create_image, teardown; a phase     *)
(* begins only when the one before it has returned or raised, none runs     *)
(* twice, and a phase that raised is followed directly by teardown.         *)
C17_FixedPhaseOrder ==
  /\ [](InFixedOrder(h.phases))
  /\ [][h'.phases # h.phases =>
          /\ pc \in {"init", "bake"}
          /\ h'.phases = Append(h.phases, LastPhase')
          /\ pending # "none" => LastPhase' = "exit"]_vars
  /\ []((pc = "done" /\ h.failedIn \in Range(AllPhases) \ {"exit"})
          => "exit" \in Phases)

(* C18: an error raised in acquire, launch, wait_for_ssh or create_image    *)
(* reaches the caller of bake after teardown, as the error that was raised  *)
(* (not swallowed, not replaced), and bake returns normally only when       *)
(* create_image has returned.                                               *)
C18_ErrorReachesCallerAfterTeardown ==
  /\ (pc = "done" /\ h.failedIn \in {"acquire", "launch", "wait_for_ssh", "create_image"})
        => /\ "exit" \in Phases
           /\ err # "none"
           /\ h.failedIn # "acquire" => err = pending
  /\ (pc = "done" /\ err = "none")
        => "create_image" \in Phases /\ h.failedIn = "none"

Interrupted == "KeyboardInterrupt" \in {pending, err}

(* C19: when a KeyboardInterrupt arrives after acquire has created its      *)
(* first resource, every resource created so far is torn down by the time   *)
(* bake has returned to cli.main.                                           *)
C19_InterruptTearsDown ==
  (Returned /\ Interrupted /\ h.created # {}) =>
     /\ "exit" \in Phases
     /\ ~be.keypair /\ ~be.pem /\ ~be.secgroup
     /\ ~InstanceExists
     /\ ~be.volume /\ ~be.workdir

RenegadeLocated == Builder = "aws" /\ "td_locate_renegade" \in Range(h.td)

(* C20: when __exit__ of the AWS builder runs with self.instance unset and  *)
(* the backend holds an instance launched with the build's key name,        *)
(* teardown takes that instance by its key name, terminates it, and         *)
(* deletes the security group only after the instance is terminated.        *)
C20_RenegadeTerminatedBeforeGroup ==
  /\ [][(pc = "td_terminate" /\ ~b.instance /\ be.inst # "none") =>
          \/ /\ pc' = "td_wait_terminated"
             /\ b'.instance
             /\ be'.inst = Terminated(be.inst)
             /\ h'.td = h.td \o <<"td_locate_renegade", "td_terminate">>
          \/ pc' = "done" /\ err' \in {"BackendError", "KeyboardInterrupt"}]_vars
  /\ []((RenegadeLocated
          /\ (pc \in {"td_sg_delete", "td_rm_pem"} \/ "td_sg_delete" \in Range(h.td)))
        => /\ be.inst = "terminated"
           /\ "td_wait_terminated" \in Range(h.td))
  /\ []((RenegadeLocated /\ ~be.secgroup /\ "secgroup" \in h.created)
        => be.inst = "terminated")

C20_RenegadeGoneGroupDeleted ==
  /\ RenegadeLocated /\ pc = "td_rm_pem"
  /\ h.failedIn = "launch" /\ "instance" \in h.created
  /\ be.inst = "terminated" /\ ~be.secgroup

(* C21: a second run of teardown right after a first one raises no error   *)
(* and leaves the backend and the local file system as the first run left  *)
(* them (failures put into the backend's calls from outside, and operator  *)
(* interrupts, set aside).                                                 *)
C21_SecondTeardownChangesNothing ==
  [][(ExitRuns = 2 /\ pc # "done"
        /\ err' \notin {"BackendError", "OSError", "KeyboardInterrupt"})
       => be' = be /\ err' = err]_vars

(* wait_for_status(48) leaves its loop once the fetched code is 48; that   *)
(* step is the program's own, whatever the backend does.                   *)
WaitTerminatedLeaves ==
  AwsWaitTerminated /\ wait_for_status_reached(AwsCode(b.status), TerminatedCode)

(* The loops of the program go on to their next iteration. *)
ExitLiveSpec ==
  LiveSpec /\ WF_vars(WaitTerminatedLeaves) /\ WF_vars(LibvirtWaitForRunning)

(* C22: the wait of the AWS teardown is bounded: when the instance does    *)
(* not become terminated, wait_for_status(48) ends all the same (and       *)
(* teardown goes on to the security group and the key file).               *)
C22_TeardownWaitEnds ==
  (pc = "td_wait_terminated") ~> (pc # "td_wait_terminated" \/ be.inst = "terminated")

LaunchReturned == pc = "bake" /\ LastPhase = "launch" /\ pending = "none"

(* The status of the instance as the builder fetched it last: the waiter's *)
(* describe_instances (aws), self.instance.status (openstack),             *)
(* self.instance.state() (libvirt).                                        *)
FetchedStatus == IF Builder = "openstack" THEN b.status ELSE be.inst

(* C23: launch returns normally only when the status of the instance       *)
(* fetched last is the running one.                                        *)
C23_LaunchReturnsWhenRunning ==
  LaunchReturned => FetchedStatus = "running"

LaunchWaits ==
  pc \in {"wait_until_running", "wait_active", "wait_for_running"}

(* C24: when the launched instance does not reach the running status,      *)
(* launch does not wait forever: it ends, with a failure, teardown runs,   *)
(* and once teardown is through the instance is gone.                      *)
C24_StuckLaunchFailsAndIsTornDown ==
  /\ LaunchWaits ~> (LaunchReturned \/ "exit" \in Phases)
  /\ []((pc = "bake" /\ LastPhase = "launch" /\ be.inst = "pending")
          => pending # "none")
  /\ []((Returned /\ h.failedIn = "launch" /\ "instance" \in h.created
           /\ pending \in {"util.TimeoutError", "WaiterError", "RuntimeError"}
           /\ ~TeardownFault /\ ExitRuns = 1)
          => ~InstanceExists)

InWaitForStatus == pc \in {"wait_status_running", "wait_active", "td_wait_terminated"}

(* The status wait_for_status waits for, at the place it is called from. *)
Awaited == IF pc = "td_wait_terminated" THEN "terminated" ELSE "running"

Raising == (pc' = "bake" /\ pending' # "none") \/ pc' = "done"

(* C25: wait_for_status fetches the status of the instance anew in every   *)
(* iteration made because the status it holds differs from the awaited     *)
(* one, and returns only when the status it holds, fetched last, is the    *)
(* awaited one.                                                            *)
C25_WaitForStatusRefetches ==
  [][(InWaitForStatus /\ ~Raising) =>
       /\ (pc' = pc /\ b.status # Awaited) => b'.status = be'.inst
       /\ (pc' # pc) => b.status = Awaited /\ b' = b /\ be' = be
       /\ (b.status = Awaited) => pc' # pc]_vars

C25_ReloadedThenReturned ==
  /\ Builder = "aws" /\ pc = "ssh_connect" /\ LastPhase = "wait_for_ssh"
  /\ b.status = "running" /\ be.inst = "running"

InAwsWaitForSsh == Builder = "aws" /\ LastPhase = "wait_for_ssh"

(* C26: the AWS wait_for_ssh makes no connection attempt, and does not     *)
(* return, before the state it fetched is running (code 16); while the     *)
(* state it holds is pending it reloads it and stays in wait_for_status.   *)
C26_NoConnectionBeforeRunning ==
  /\ [](InAwsWaitForSsh =>
          /\ (pc = "wait_status_running") => loc.attempts = 0 /\ b.ssh_client = 0
          /\ (pc = "ssh_connect" \/ loc.attempts > 0 \/ SshReturned)
                => AwsCode(b.status) = RunningCode)
  /\ [][(InAwsWaitForSsh /\ pc = "wait_status_running"
           /\ b.status = "pending" /\ ~Raising)
          => pc' = pc /\ b'.status = be'.inst]_vars

C26_PendingReloadedThenConnected ==
  /\ InAwsWaitForSsh /\ SshReturned
  /\ loc.attempts > 0 /\ b.ssh_client # 0
  /\ b.status = "running"

NameTaken ==
  \/ pc = "get_keypair" /\ be.otherKey
  \/ pc = "get_security_group" /\ be.otherGroup

(* C27: when a keypair or a security group of the name acquire has chosen  *)
(* exists already, acquire fails with an error, without a retry, and the   *)
(* existing keypair or security group stays as it is.                      *)
C27_NameCollisionIsFatal ==
  [][NameTaken =>
       /\ pc' = "done" /\ err' # "none"
       /\ be'.otherKey = be.otherKey /\ be'.otherGroup = be.otherGroup]_vars

(* C28: of two bakes interleaved against the same backend, no step of one  *)
(* deletes or replaces a keypair or security group of the other: a bake's  *)
(* keypair and group go away only in its own teardown, and the other       *)
(* bake's keypair and group are never removed by this bake.                *)
OwnTeardown == LastPhase = "exit"

C28_BuildsDoNotTouchEachOther ==
  /\ [][(be.secgroup /\ ~be'.secgroup) => OwnTeardown]_vars
  /\ [][(be.keypair /\ ~be'.keypair) => OwnTeardown]_vars
  /\ [][be.otherGroup => be'.otherGroup]_vars
  /\ [][be.otherKey => be'.otherKey]_vars

(* C29: a config that lacks only region passes check_config when its       *)
(* provider needs no region (openstack, libvirt), and is refused by        *)
(* check_config for every other provider.                                  *)
RejectedByCheckConfig ==
  Returned /\ h.failedIn = "preflight" /\ err \in {"KeyError", "BadConfigFile"}

C29_RegionOnlyWhereNeeded ==
  (pc # "check_config" /\ cfg.missing = {"region"}) =>
     IF cfg.provider \in {"openstack", "libvirt"}
     THEN ~RejectedByCheckConfig
     ELSE RejectedByCheckConfig

(* C30: once copy_files has returned normally, every item of the spec's    *)
(* uploads has been copied exactly once, in the session wait_for_ssh       *)
(* opened, and no copy is made after the first command of configure has    *)
(* been executed.                                                          *)
CopyFilesReturned ==
  /\ "copy_files" \in Phases
  /\ ~(LastPhase = "copy_files" /\ (pc # "bake" \/ pending # "none"))
  /\ h.failedIn # "copy_files"

C30_UploadsCopiedOnceBeforeCommands ==
  /\ [](CopyFilesReturned =>
          /\ Len(h.copied) = Len(cfg.uploads)
          /\ \A k \in DOMAIN cfg.uploads :
                /\ h.copied[k].item = cfg.uploads[k]
                /\ h.copied[k].session = b.ssh_client)
  /\ [](h.executed # <<>> => CopyFilesReturned)
  /\ [][h.executed # <<>> => h'.copied = h.copied]_vars

C30_CopiedThenConfigured ==
  /\ pc = "bake" /\ LastPhase = "configure" /\ pending = "none"
  /\ h.copied # <<>> /\ h.executed # <<>>
  /\ CopyFilesReturned

(* C31: over one builder run at most one remote session is opened, and     *)
(* every upload and every command of the run goes over that session.       *)
C31_OneSessionForEverything ==
  /\ be.sessions <= 1
  /\ b.ssh_client \in {0, be.sessions}
  /\ \A k \in DOMAIN h.copied : h.copied[k].session = be.sessions
  /\ \A k \in DOMAIN h.executed : h.executed[k].session = be.sessions

C31_UploadedAndExecutedOnOneSession ==
  /\ Returned /\ err = "none"
  /\ be.sessions = 1
  /\ h.copied # <<>> /\ h.executed # <<>>

(* The address the guest agent reports is the one the instance itself     *)
(* holds on its network, and ranks as its private address.                 *)
AddressRank(a) ==
  CASE a = "public" -> 1
    [] a \in {"private", "agent"} -> 2
    [] a = "lease" -> 3
    [] OTHER -> 4

(* C32: the address a connection attempt goes to is the one of highest     *)
(* priority among those the instance has: public before private, the       *)
(* instance's own answer before the lease.                                 *)
C32_AddressByPriority ==
  (LastPhase = "wait_for_ssh" /\ loc.attempts > 0) =>
     /\ loc.ip_addr \in loc.has
     /\ \A a \in loc.has : AddressRank(loc.ip_addr) <= AddressRank(a)

C32_PrivateForWantOfPublic ==
  /\ SshReturned /\ loc.attempts > 0
  /\ loc.has = {"private"} /\ loc.ip_addr = "private"

(* C33: the private-key file of an AWS bake exists only from acquire to    *)
(* teardown: once teardown has run and bake has returned, with no call of  *)
(* teardown made to fail from outside, the .pem file is gone; and there is *)
(* none before acquire.                                                    *)
C33_KeyFileGoneAfterTeardown ==
  /\ (Builder = "aws" /\ Returned /\ "exit" \in Phases /\ ~TeardownFault) => ~be.pem
  /\ ("acquire" \notin Phases) => ~be.pem

(* C34: libvirt create_image starts qemu-img convert only when the domain  *)
(* is shut off.                                                            *)
C34_ConvertOnlyWhenShutOff ==
  (Builder = "libvirt" /\ pc = "convert") => be.inst = "stopped"

(* C35: an AWS teardown that has no instance reference and finds no        *)
(* instance of the build's key name in EC2 still deletes the security      *)
(* group and removes the key file, and raises nothing: the error of the    *)
(* failed phase is the one that reaches the caller.                        *)
C35_TeardownWithoutInstance ==
  (Builder = "aws" /\ Returned /\ "exit" \in Phases /\ ExitRuns = 1
     /\ ~b.instance /\ be.inst = "none" /\ ~TeardownFault) =>
     /\ ~be.secgroup
     /\ ~be.pem
     /\ err = pending

(* C36: OpenStack clean on a builder whose launch produced no instance     *)
(* (self.instance is None) deletes the security group and the keypair and  *)
(* returns without raising: the launch error reaches the caller.           *)
C36_CleanWithoutInstance ==
  (Builder = "openstack" /\ Returned /\ "exit" \in Phases /\ ExitRuns = 1
     /\ ~b.instance /\ ~TeardownFault) =>
     /\ ~be.secgroup
     /\ ~be.keypair
     /\ err = pending

(* C37: AWS teardown asks for the deletion of the security group only      *)
(* after it has observed the instance terminated (code 48): at the call,   *)
(* and ever after, the state last fetched is terminated and no instance of *)
(* the build is pending, running or shutting down.                         *)
C37_GroupDeletedAfterTerminated ==
  (Builder = "aws"
     /\ (pc \in {"td_sg_delete", "td_rm_pem"} \/ "td_sg_delete" \in Range(h.td))) =>
     /\ AwsCode(b.status) = TerminatedCode
     /\ be.inst = "terminated"
     /\ "td_wait_terminated" \in Range(h.td)

C37_TerminatedThenGroupDeleted ==
  /\ Builder = "aws" /\ Returned /\ h.failedIn = "none" /\ ExitRuns = 1
  /\ "td_sg_delete" \in Range(h.td) /\ ~be.secgroup
  /\ ~RenegadeLocated /\ be.inst = "terminated"

(* C38: a bake never deletes an image it did not create: an image of the   *)
(* spec's name that was there before the bake, or that somebody else made  *)
(* while it ran, is left as it is by every step.                           *)
C38_ForeignImageUntouched ==
  [][be.oldImage => be'.oldImage]_vars

(* C39: whenever wait_for_ssh has returned normally the builder holds an   *)
(* open session, so copy_files and configure never run, and no upload or   *)
(* command is ever made, without the session wait_for_ssh set.             *)
C39_SessionSetWhenSshReturns ==
  /\ SshReturned => b.ssh_client # 0
  /\ (pc \in {"copy_files", "configure"}) => b.ssh_client # 0
  /\ (LastPhase \in {"copy_files", "configure"}) => pending # "AttributeError"
  /\ \A k \in DOMAIN h.copied : h.copied[k].session # 0
  /\ \A k \in DOMAIN h.executed : h.executed[k].session # 0

C39_ConfigureRunsWithSession ==
  /\ pc = "configure" /\ loc.i > 0 /\ b.ssh_client # 0
  /\ h.copied # <<>>

(* C40: the timeout decorator cancels its alarm whenever the decorated     *)
(* phase ends, by return or by exception: an alarm is pending only inside  *)
(* a decorated phase, never between phases, in teardown or after bake,     *)
(* and a timeout is only ever raised in the phase that armed it.           *)
C40_AlarmCancelledWhenPhaseEnds ==
  /\ alarm => /\ Decorated(Builder, LastPhase)
              /\ pc \notin {"bake", "done", "deleted", "listed"}
  /\ (pending = "util.TimeoutError" \/ err = "util.TimeoutError")
       => Decorated(Builder, h.failedIn)

C40_CancelledOnException ==
  /\ pc = "bake" /\ LastPhase = "copy_files" /\ pending = "IOError"
  /\ Decorated(Builder, LastPhase)
  /\ ~alarm

====
